---- MODULE Spec2Model ----
(***************************************************************************)
(* libyara/libyara.c: the reference-counted library lifecycle              *)
(* (yr_initialize / yr_finalize), the per-thread tidx slot kept in OS      *)
(* thread-local storage, the configuration table and the OpenSSL lock      *)
(* bridge.  The POSIX branch of the #if's is the one modelled; the Windows *)
(* branch differs only in the names of the TLS calls.                      *)
(*                                                                         *)
(* A handler is computed as the code runs it: a record s holding the      *)
(* globals and the call's locals is threaded through one operator per      *)
(* statement, in program order; s.done is set by a return.                 *)
(*                                                                         *)
(* Spec, SpecConfig, SpecBridge and SpecThread take every API call as one  *)
(* atomic action (serialized callers); SpecRace cuts yr_initialize and     *)
(* yr_finalize at their accesses to init_count and interleaves them.       *)
(***************************************************************************)
EXTENDS Integers, Sequences, FiniteSets, TLC

\* ---------------------------------------------------------------- bounds
\* init_count is capped: yr_initialize is not called at MaxCount.
MaxCount == 2
\* yr_finalize is not called when init_count has sunk to -MaxUnder.
MaxUnder == 1
\* yr_set_tidx is called with tidx in -1 .. MaxTidx.
MaxTidx == 1
\* At most MaxFails steps of one call fail.
MaxFails == 1
\* Width of int, scaled down; a pointer is twice as wide (LP64).
INT_BITS == 4
\* yr_set_configuration is called with the values 128 * i, i in 1 .. MaxStack.
MaxStack == 2
\* CRYPTO_num_locks(), scaled down.
NumLocks == 2

PTR_BITS == 2 * INT_BITS

Threads == {"T1", "T2"}

TidxInputs == (0 - 1) .. MaxTidx

\* The uint32_t values a caller's buffer holds.
StackSizeInputs == {128 * i : i \in 1 .. MaxStack}

\* ---------------------------------------------------------------- constants
DEFAULT_STACK_SIZE == 16384

ERROR_SUCCESS == "ERROR_SUCCESS"
ERROR_INSUFICIENT_MEMORY == "ERROR_INSUFICIENT_MEMORY"
ERROR_INTERNAL_FATAL_ERROR == "ERROR_INTERNAL_FATAL_ERROR"

\* Codes a failing collaborator may return.
ErrorCodes == {ERROR_INSUFICIENT_MEMORY, ERROR_INTERNAL_FATAL_ERROR}

\* The call did not return (the process died in it).
NO_RETURN == "NO_RETURN"

YR_CONFIG_STACK_SIZE == "YR_CONFIG_STACK_SIZE"
YR_CONFIG_MAX == "YR_CONFIG_MAX"

\* The mode bits of <openssl/crypto.h>, and the modes the crypto library
\* passes to the locking callback.
CRYPTO_LOCK == 1

CRYPTO_UNLOCK == 2

CRYPTO_READ == 4

CRYPTO_WRITE == 8

Modes == {l + r : l \in {CRYPTO_LOCK, CRYPTO_UNLOCK}, r \in {CRYPTO_READ, CRYPTO_WRITE}}

\* The indices of locks[].
Slots == 0 .. (NumLocks - 1)

\* The values of YR_CONFIG_NAME a caller can pass.
ConfigNames == {YR_CONFIG_STACK_SIZE, YR_CONFIG_MAX}

\* The process-wide resources yr_initialize acquires.
Resources == {"heap", "tidx_key", "recovery_state_key", "locks", "re", "modules"}

\* ---------------------------------------------------------------- state
VARIABLES
  HAVE_LIBCRYPTO,       \* build option: the OpenSSL lock bridge is compiled in
  init_count,           \* static int init_count
  heap,                 \* the heap bookkeeping is allocated
  re,                   \* the regex engine is initialized
  modules,              \* the module registry is initialized
  tidx_key,             \* TRUE iff the variable names a live TLS key
  recovery_state_key,   \* TRUE iff the variable names a live TLS key
  locks,                \* the pointer: "NULL", "valid" or "freed" (dangling)
  mutex_ok,             \* the mutexes of locks[] are initialized
  id_callback,          \* CRYPTO id callback registered
  locking_callback,     \* CRYPTO locking callback registered
  tls_tidx,             \* thread -> pointer value stored under tidx_key
  yr_cfgs,              \* configuration table: name -> ui32
  case_tables,          \* the loop filling lowercase[] and altercase[] has run
  crashed,              \* the process has died
  last,                 \* the last API call: who, what, result, steps it ran
  clean,                \* history: no step has failed, no finalize at count <= 0
  run,                  \* history: position in an init^N finalize^N sequence
  has_set,              \* history: thread has called yr_set_tidx
  tidx_of,              \* history: <<tidx>> the thread set while initialized, else <<>>
  call_args,            \* the last call's name and buffer (<<>> is NULL), if it has them
  buf_after,            \* the caller's buffer after that call
  written,              \* history: <<v>> while the last write to yr_cfgs is a caller's v
  overwrote,            \* history: <<v>> if the last call replaced a caller's v by the default
  holders,              \* slot n -> the threads inside pthread_mutex_lock(&locks[n]) .. unlock
  re_storage,           \* thread -> the regex engine holds per-thread state for it
  pc,                   \* thread -> where it is in a call that is run step by step
  loaded,               \* thread -> the value of init_count it has read to update it
  mine,                 \* thread -> yr_initialize calls it has not yet paired with a yr_finalize
  serialized,           \* the callers keep their lifecycle calls mutually exclusive
  live_setups           \* history: one-time setups run since the last teardown

vars == <<HAVE_LIBCRYPTO, init_count, heap, re, modules, tidx_key,
          recovery_state_key, locks, mutex_ok, id_callback, locking_callback,
          tls_tidx, yr_cfgs, case_tables, crashed, last, clean, run, has_set,
          tidx_of, call_args, buf_after, written, overwrote, holders, re_storage,
          pc, loaded, mine, serialized, live_setups>>

\* The state of calls run step by step, and the histories kept for calls
\* run as one step.
race_vars == <<pc, loaded, mine, serialized, live_setups>>

call_vars == <<last, clean, run, has_set, tidx_of, call_args, buf_after, written,
               overwrote>>

\* ---------------------------------------------------------------- helpers
Pow2(n) == 2 ^ n

\* (void*) (size_t) x for an int x: conversion to unsigned, modulo 2^PTR_BITS.
ToPtr(x) == x % Pow2(PTR_BITS)

\* (int) (size_t) p: the low INT_BITS bits, read as two's complement.
ToInt(p) ==
  LET m == p % Pow2(INT_BITS)
  IN  IF m >= Pow2(INT_BITS - 1) THEN m - Pow2(INT_BITS) ELSE m

\* Storing an int into a char keeps the low eight bits.
ToChar(x) == x % 256

\* tolower() in the "C" locale, the locale of a process that has not called
\* setlocale (this file never does).
tolower(c) == IF c >= 65 /\ c <= 90 THEN c + 32 ELSE c

\* The state a handler works on: the globals and the call's own record.
Cur ==
  [ HAVE_LIBCRYPTO |-> HAVE_LIBCRYPTO, init_count |-> init_count,
    heap |-> heap, re |-> re, modules |-> modules,
    tidx_key |-> tidx_key, recovery_state_key |-> recovery_state_key,
    locks |-> locks, mutex_ok |-> mutex_ok, id_callback |-> id_callback,
    locking_callback |-> locking_callback, tls_tidx |-> tls_tidx,
    yr_cfgs |-> yr_cfgs, case_tables |-> case_tables, holders |-> holders,
    re_storage |-> re_storage, self |-> "any",
    crashed |-> FALSE, blocked |-> FALSE,
    pre_count |-> init_count, trace |-> <<>>, failed |-> {}, result |-> ERROR_SUCCESS,
    ret |-> ERROR_SUCCESS, done |-> FALSE, ub |-> FALSE, leaked |-> {},
    dest |-> <<>> ]

\* The same, for a call made on thread t.
On(t) == [Cur EXCEPT !.self = t]

\* The statement `step` is reached and executed.
Invoke(s, step) == [s EXCEPT !.trace = Append(@, step)]

\* return x;
Return(s, x) == [s EXCEPT !.done = TRUE, !.ret = x]

\* An operation with undefined behaviour was executed: the process dies in
\* it, or it carries on.
Undefined(s, in) ==
  IF in.crash
  THEN [s EXCEPT !.ub = TRUE, !.crashed = TRUE, !.done = TRUE, !.ret = NO_RETURN]
  ELSE [s EXCEPT !.ub = TRUE]

\* A collaborator's init entry point: acquires resource r, or fails with
\* in.code and acquires nothing.  Acquiring what is still held loses the
\* instance held before.
Acquire(s, in, step, r) ==
  IF s.done THEN s
  ELSE IF step \in in.fails
       THEN [Invoke(s, step) EXCEPT !.result = in.code, !.failed = @ \cup {step}]
       ELSE [Invoke(s, step) EXCEPT
               !.result = ERROR_SUCCESS,
               ![r] = TRUE,
               !.leaked = IF s[r] THEN @ \cup {r} ELSE @]

\* A collaborator's teardown entry point: releases resource r, or fails with
\* in.code and releases nothing.  Tearing down what is not there is undefined.
Release(s, in, step, r) ==
  IF s.done THEN s
  ELSE IF step \in in.fails
       THEN [Invoke(s, step) EXCEPT !.result = in.code, !.failed = @ \cup {step}]
       ELSE IF s[r]
            THEN [Invoke(s, step) EXCEPT !.result = ERROR_SUCCESS, ![r] = FALSE]
            ELSE [Undefined(Invoke(s, step), in) EXCEPT !.result = ERROR_SUCCESS]

\* FAIL_ON_ERROR(x): return x's result unless it is ERROR_SUCCESS.
FAIL_ON_ERROR(s) ==
  IF s.done THEN s
  ELSE IF s.result # ERROR_SUCCESS THEN Return(s, s.result) ELSE s

yr_heap_alloc(s, in) == Acquire(s, in, "yr_heap_alloc", "heap")

yr_re_initialize(s, in) == Acquire(s, in, "yr_re_initialize", "re")

yr_modules_initialize(s, in) == Acquire(s, in, "yr_modules_initialize", "modules")

yr_re_finalize(s, in) == Release(s, in, "yr_re_finalize", "re")

yr_modules_finalize(s, in) == Release(s, in, "yr_modules_finalize", "modules")

yr_heap_free(s, in) == Release(s, in, "yr_heap_free", "heap")

\* The regex engine's per-thread teardown: releases the per-thread state
\* the engine holds for the calling thread, if any; touches no state of
\* this file.
yr_re_finalize_thread(s) ==
  IF s.done THEN s
  ELSE [Invoke(s, "yr_re_finalize_thread") EXCEPT
          !.re_storage = [u \in Threads |-> IF u = s.self THEN FALSE ELSE @[u]]]

\* ---------------------------------------------------------------- TLS keys
\* pthread_key_create(&key, NULL), its result ignored: on success the
\* variable names a new key whose value is NULL in every thread (a key the
\* variable named before stays allocated); on failure the variable is left
\* as it was.
pthread_key_create(s, in, key) ==
  LET step == "pthread_key_create(" \o key \o ")"
  IN  IF s.done THEN s
      ELSE IF step \in in.fails
           THEN [Invoke(s, step) EXCEPT !.failed = @ \cup {step}]
           ELSE [Invoke(s, step) EXCEPT
                   ![key] = TRUE,
                   !.leaked = IF s[key] THEN @ \cup {key} ELSE @,
                   !.tls_tidx = IF key = "tidx_key" THEN [t \in Threads |-> 0] ELSE @]

\* pthread_key_delete(key), its result ignored.  Deleting a key that is not
\* live is undefined.
pthread_key_delete(s, in, key) ==
  LET step == "pthread_key_delete(" \o key \o ")"
  IN  IF s.done THEN s
      ELSE IF s[key]
           THEN [Invoke(s, step) EXCEPT
                   ![key] = FALSE,
                   !.tls_tidx = IF key = "tidx_key" THEN [t \in Threads |-> 0] ELSE @]
           ELSE [Undefined(Invoke(s, step), in) EXCEPT !.failed = @ \cup {step}]

\* ---------------------------------------------------------------- crypto bridge
\* No mutex of the array locks points to is held.
Unlocked == [n \in Slots |-> {}]

\* locks = OPENSSL_malloc(...), the result not checked.  The array locks
\* pointed to before, if it was not freed, is lost.
OPENSSL_malloc(s, in) ==
  LET step == "OPENSSL_malloc"
  IN  IF s.done THEN s
      ELSE IF step \in in.fails
           THEN [Invoke(s, step) EXCEPT
                   !.locks = "NULL", !.failed = @ \cup {step},
                   !.holders = Unlocked,
                   !.leaked = IF s.locks = "valid" THEN @ \cup {"locks"} ELSE @]
           ELSE [Invoke(s, step) EXCEPT
                   !.locks = "valid",
                   !.holders = Unlocked,
                   !.leaked = IF s.locks = "valid" THEN @ \cup {"locks"} ELSE @]

\* for (...) pthread_mutex_init(&locks[i], NULL), the results ignored.
\* Writing through a NULL locks is undefined.
pthread_mutex_init(s, in) ==
  LET step == "pthread_mutex_init"
  IN  IF s.done THEN s
      ELSE IF s.locks # "valid"
           THEN Undefined(Invoke(s, step), in)
           ELSE IF step \in in.fails
                THEN [Invoke(s, step) EXCEPT !.mutex_ok = FALSE, !.failed = @ \cup {step}]
                ELSE [Invoke(s, step) EXCEPT !.mutex_ok = TRUE]

CRYPTO_set_id_callback(s) ==
  IF s.done THEN s
  ELSE [Invoke(s, "CRYPTO_set_id_callback") EXCEPT !.id_callback = TRUE]

CRYPTO_set_locking_callback(s) ==
  IF s.done THEN s
  ELSE [Invoke(s, "CRYPTO_set_locking_callback") EXCEPT !.locking_callback = TRUE]

\* for (...) pthread_mutex_destroy(&locks[i]): undefined through a pointer
\* that is NULL or dangling, and on a mutex that is locked.
pthread_mutex_destroy(s, in) ==
  LET step == "pthread_mutex_destroy"
  IN  IF s.done THEN s
      ELSE IF s.locks # "valid"
           THEN Undefined(Invoke(s, step), in)
           ELSE IF s.holders # Unlocked
                THEN [Undefined(Invoke(s, step), in) EXCEPT
                        !.mutex_ok = FALSE, !.holders = Unlocked]
                ELSE [Invoke(s, step) EXCEPT !.mutex_ok = FALSE]

\* OPENSSL_free(locks): the variable keeps the (now dangling) pointer; a
\* second free of it is undefined, a free of NULL does nothing.
OPENSSL_free(s, in) ==
  LET step == "OPENSSL_free"
  IN  IF s.done THEN s
      ELSE IF s.locks = "valid"
           THEN [Invoke(s, step) EXCEPT !.locks = "freed"]
           ELSE IF s.locks = "freed"
                THEN Undefined(Invoke(s, step), in)
                ELSE Invoke(s, step)

\* mode & bit, for a one-bit mask.
BitAnd(mode, bit) == ((mode \div bit) % 2) * bit

\* pthread_mutex_lock(&locks[n]) on thread t: undefined through a pointer
\* that is NULL or dangling, on a mutex that was not initialized, and on a
\* mutex (of the default type) the thread holds; the thread blocks while
\* another thread holds the mutex.
pthread_mutex_lock(s, in, t, n) ==
  LET step == "pthread_mutex_lock"
  IN  IF s.done THEN s
      ELSE IF s.locks # "valid" \/ ~s.mutex_ok \/ t \in s.holders[n]
           THEN Undefined(Invoke(s, step), in)
           ELSE IF s.holders[n] # {}
                THEN [s EXCEPT !.blocked = TRUE, !.done = TRUE]
                ELSE [Invoke(s, step) EXCEPT !.holders[n] = @ \cup {t}]

\* pthread_mutex_unlock(&locks[n]) on thread t: undefined through a pointer
\* that is NULL or dangling, on a mutex that was not initialized, and on a
\* mutex the thread does not hold.
pthread_mutex_unlock(s, in, t, n) ==
  LET step == "pthread_mutex_unlock"
  IN  IF s.done THEN s
      ELSE IF s.locks # "valid" \/ ~s.mutex_ok \/ t \notin s.holders[n]
           THEN Undefined(Invoke(s, step), in)
           ELSE [Invoke(s, step) EXCEPT !.holders[n] = @ \ {t}]

\* Mutant: every slot uses locks[0].
locking_function_one_mutex(s, in, t, mode, n) ==
  LET s1 == IF BitAnd(mode, CRYPTO_LOCK) # 0
            THEN pthread_mutex_lock(s, in, t, 0)
            ELSE pthread_mutex_unlock(s, in, t, 0)
  IN  IF s1.done THEN s1 ELSE Return(s1, "void")

\* locking_function(mode, n, file, line), called by the crypto library on
\* thread t.
locking_function(s, in, t, mode, n) ==
  LET s1 == IF BitAnd(mode, CRYPTO_LOCK) # 0
            THEN pthread_mutex_lock(s, in, t, n)
            ELSE pthread_mutex_unlock(s, in, t, n)
  IN  IF s1.done THEN s1 ELSE Return(s1, "void")

\* ---------------------------------------------------------------- configuration
\* Mutant: the value is stored through a one-byte member.
yr_set_configuration_byte(s, cfgname, src) ==
  IF s.done THEN s
  ELSE IF src = <<>>
       THEN [Invoke(s, "yr_set_configuration") EXCEPT
               !.result = ERROR_INTERNAL_FATAL_ERROR,
               !.failed = @ \cup {"yr_set_configuration"}]
       ELSE IF cfgname = YR_CONFIG_STACK_SIZE
            THEN [Invoke(s, "yr_set_configuration") EXCEPT
                    !.yr_cfgs[cfgname] = ToChar(src[1]), !.result = ERROR_SUCCESS]
            ELSE [Invoke(s, "yr_set_configuration") EXCEPT
                    !.result = ERROR_INTERNAL_FATAL_ERROR,
                    !.failed = @ \cup {"yr_set_configuration"}]

\* yr_set_configuration(cfgname, src); src is <<>> for NULL, else <<*src>>.
\* The int it returns is left in s.result.
yr_set_configuration(s, cfgname, src) ==
  IF s.done THEN s
  ELSE IF src = <<>>
       THEN [Invoke(s, "yr_set_configuration") EXCEPT
               !.result = ERROR_INTERNAL_FATAL_ERROR,
               !.failed = @ \cup {"yr_set_configuration"}]
       ELSE IF cfgname = YR_CONFIG_STACK_SIZE
            THEN [Invoke(s, "yr_set_configuration") EXCEPT
                    !.yr_cfgs[cfgname] = src[1], !.result = ERROR_SUCCESS]
            ELSE [Invoke(s, "yr_set_configuration") EXCEPT
                    !.result = ERROR_INTERNAL_FATAL_ERROR,
                    !.failed = @ \cup {"yr_set_configuration"}]

\* Mutant: an unwired name is accepted, and reads the stack size.
yr_get_configuration_any_name(s, cfgname, dest) ==
  IF s.done THEN s
  ELSE IF dest = <<>>
       THEN [Invoke(s, "yr_get_configuration") EXCEPT
               !.result = ERROR_INTERNAL_FATAL_ERROR,
               !.failed = @ \cup {"yr_get_configuration"}]
       ELSE [Invoke(s, "yr_get_configuration") EXCEPT
               !.dest = <<s.yr_cfgs[YR_CONFIG_STACK_SIZE]>>, !.result = ERROR_SUCCESS]

\* yr_get_configuration(cfgname, dest); dest is <<>> for NULL, else the
\* buffer's contents.  s.dest is the buffer afterwards, s.result the int
\* returned.
yr_get_configuration(s, cfgname, dest) ==
  IF s.done THEN s
  ELSE IF dest = <<>>
       THEN [Invoke(s, "yr_get_configuration") EXCEPT
               !.result = ERROR_INTERNAL_FATAL_ERROR,
               !.failed = @ \cup {"yr_get_configuration"}]
       ELSE IF cfgname = YR_CONFIG_STACK_SIZE
            THEN [Invoke(s, "yr_get_configuration") EXCEPT
                    !.dest = <<s.yr_cfgs[cfgname]>>, !.result = ERROR_SUCCESS]
            ELSE [Invoke(s, "yr_get_configuration") EXCEPT
                    !.dest = dest,
                    !.result = ERROR_INTERNAL_FATAL_ERROR,
                    !.failed = @ \cup {"yr_get_configuration"}]

\* ---------------------------------------------------------------- yr_initialize
\* Mutant: the test reads init_count > 1.
yr_initialize_nested_above_one(s) ==
  IF s.init_count > 1
  THEN Return([Invoke(s, "init_count++") EXCEPT !.init_count = @ + 1], ERROR_SUCCESS)
  ELSE s

\* Mutant: the nested call writes the default stack size too.
yr_initialize_nested_writes_default(s) ==
  IF s.init_count > 0
  THEN Return([Invoke(s, "init_count++") EXCEPT
                 !.init_count = @ + 1,
                 !.yr_cfgs[YR_CONFIG_STACK_SIZE] = DEFAULT_STACK_SIZE], ERROR_SUCCESS)
  ELSE s

\* if (init_count > 0) { init_count++; return ERROR_SUCCESS; }
yr_initialize_nested(s) ==
  IF s.init_count > 0
  THEN Return([Invoke(s, "init_count++") EXCEPT !.init_count = @ + 1], ERROR_SUCCESS)
  ELSE s

\* Mutant: the tests read i > 'a' and i > 'A'.
altercase_built_exclusive ==
  [i \in 0..255 |-> IF i > 97 /\ i <= 122 THEN ToChar(i - 32)
                    ELSE IF i > 65 /\ i <= 90 THEN ToChar(i + 32)
                    ELSE ToChar(i)]

\* The loop over i = 0 .. 255 that fills altercase[] and lowercase[]: the
\* values it writes, and the step.
altercase_built ==
  [i \in 0..255 |-> IF i >= 97 /\ i <= 122 THEN ToChar(i - 32)
                    ELSE IF i >= 65 /\ i <= 90 THEN ToChar(i + 32)
                    ELSE ToChar(i)]

lowercase_built == [i \in 0..255 |-> ToChar(tolower(i))]

build_case_tables(s) ==
  IF s.done THEN s ELSE [Invoke(s, "case_tables") EXCEPT !.case_tables = TRUE]

\* char lowercase[256], char altercase[256] as byte values: zero (static
\* storage) until the loop has run, and what the loop writes afterwards.
lowercase == IF case_tables THEN lowercase_built ELSE [i \in 0..255 |-> 0]

altercase == IF case_tables THEN altercase_built ELSE [i \in 0..255 |-> 0]

\* The two pthread_key_create calls.
yr_initialize_keys(s, in) ==
  pthread_key_create(pthread_key_create(s, in, "tidx_key"), in, "recovery_state_key")

\* The #ifdef HAVE_LIBCRYPTO block of yr_initialize.
yr_initialize_crypto(s, in) ==
  IF s.done \/ ~s.HAVE_LIBCRYPTO THEN s
  ELSE CRYPTO_set_locking_callback(
         CRYPTO_set_id_callback(
           pthread_mutex_init(OPENSSL_malloc(s, in), in)))

\* init_count++; return ERROR_SUCCESS;
yr_initialize_commit(s) ==
  IF s.done THEN s
  ELSE Return([Invoke(s, "init_count++") EXCEPT !.init_count = @ + 1], ERROR_SUCCESS)

\* Mutant: the module registry is initialized before the regex engine.
yr_initialize_setup_modules_first(s, in) ==
  LET s1 == build_case_tables(s)
      s2 == FAIL_ON_ERROR(yr_heap_alloc(s1, in))
      s3 == yr_initialize_keys(s2, in)
      s4 == yr_initialize_crypto(s3, in)
      s5 == FAIL_ON_ERROR(yr_modules_initialize(s4, in))
      s6 == FAIL_ON_ERROR(yr_re_initialize(s5, in))
      s7 == FAIL_ON_ERROR(yr_set_configuration(s6, YR_CONFIG_STACK_SIZE, <<DEFAULT_STACK_SIZE>>))
  IN  s7

\* The one-time setup, in program order.
yr_initialize_setup(s, in) ==
  LET s1 == build_case_tables(s)
      s2 == FAIL_ON_ERROR(yr_heap_alloc(s1, in))
      s3 == yr_initialize_keys(s2, in)
      s4 == yr_initialize_crypto(s3, in)
      s5 == FAIL_ON_ERROR(yr_re_initialize(s4, in))
      s6 == FAIL_ON_ERROR(yr_modules_initialize(s5, in))
      s7 == FAIL_ON_ERROR(yr_set_configuration(s6, YR_CONFIG_STACK_SIZE, <<DEFAULT_STACK_SIZE>>))
  IN  s7

\* Mutant: the count is incremented before the setup runs.
yr_initialize_count_first(s, in) ==
  LET s1 == yr_initialize_nested(s)
      s2 == IF s1.done THEN s1
            ELSE [Invoke(s1, "init_count++") EXCEPT !.init_count = @ + 1]
      s3 == yr_initialize_setup(s2, in)
  IN  IF s3.done THEN s3 ELSE Return(s3, ERROR_SUCCESS)

yr_initialize(s, in) ==
  yr_initialize_commit(yr_initialize_setup(yr_initialize_nested(s), in))

\* ---------------------------------------------------------------- yr_finalize_thread
\* Mutant: the hook counts as a yr_finalize.
yr_finalize_thread_decrements(s) ==
  LET s1 == [Invoke(yr_re_finalize_thread(s), "--init_count") EXCEPT !.init_count = @ - 1]
  IN  Return(s1, "void")

yr_finalize_thread(s) == Return(yr_re_finalize_thread(s), "void")

\* ---------------------------------------------------------------- yr_finalize
\* Mutant: a call made with a count <= 0 returns at once.
yr_finalize_decrement_guarded(s) ==
  LET s1 == [Invoke(s, "--init_count") EXCEPT !.init_count = @ - 1]
  IN  IF s.done THEN s
      ELSE IF s.init_count <= 0 THEN Return(s, ERROR_SUCCESS)
      ELSE IF s1.init_count > 0 THEN Return(s1, ERROR_SUCCESS) ELSE s1

\* Mutant: if (init_count-- > 0) return ERROR_SUCCESS;
yr_finalize_postdecrement(s) ==
  LET s1 == [Invoke(s, "--init_count") EXCEPT !.init_count = @ - 1]
  IN  IF s.done THEN s
      ELSE IF s.init_count > 0 THEN Return(s1, ERROR_SUCCESS) ELSE s1

\* if (--init_count > 0) return ERROR_SUCCESS;
yr_finalize_decrement(s) ==
  LET s1 == [Invoke(s, "--init_count") EXCEPT !.init_count = @ - 1]
  IN  IF s.done THEN s
      ELSE IF s1.init_count > 0 THEN Return(s1, ERROR_SUCCESS) ELSE s1

\* The #ifdef HAVE_LIBCRYPTO block of yr_finalize.
yr_finalize_crypto(s, in) ==
  IF s.done \/ ~s.HAVE_LIBCRYPTO THEN s
  ELSE OPENSSL_free(pthread_mutex_destroy(s, in), in)

\* Mutant: recovery_state_key is not deleted.
yr_finalize_keys_tidx_only(s, in) == pthread_key_delete(s, in, "tidx_key")

\* The two pthread_key_delete calls.
yr_finalize_keys(s, in) ==
  pthread_key_delete(pthread_key_delete(s, in, "tidx_key"), in, "recovery_state_key")

\* Mutant: the heap bookkeeping is freed first.
yr_finalize_teardown_heap_first(s, in) ==
  LET s0 == FAIL_ON_ERROR(yr_heap_free(s, in))
      s1 == yr_finalize_crypto(s0, in)
      s2 == yr_finalize_keys(s1, in)
      s3 == FAIL_ON_ERROR(yr_re_finalize(s2, in))
      s4 == FAIL_ON_ERROR(yr_modules_finalize(s3, in))
  IN  IF s4.done THEN s4 ELSE Return(s4, ERROR_SUCCESS)

\* Mutant: a failing teardown step does not end the call; the remaining
\* steps run and the last result is returned.
yr_finalize_teardown_no_short_circuit(s, in) ==
  LET s1 == yr_finalize_crypto(s, in)
      s2 == yr_finalize_keys(s1, in)
      s3 == yr_re_finalize(s2, in)
      s4 == yr_modules_finalize(s3, in)
      s5 == yr_heap_free(s4, in)
  IN  IF s5.done THEN s5 ELSE Return(s5, s5.result)

\* The teardown, in program order, and the final return.
yr_finalize_teardown(s, in) ==
  LET s1 == yr_finalize_crypto(s, in)
      s2 == yr_finalize_keys(s1, in)
      s3 == FAIL_ON_ERROR(yr_re_finalize(s2, in))
      s4 == FAIL_ON_ERROR(yr_modules_finalize(s3, in))
      s5 == FAIL_ON_ERROR(yr_heap_free(s4, in))
  IN  IF s5.done THEN s5 ELSE Return(s5, ERROR_SUCCESS)

\* Mutant: the teardown runs before the count is looked at.
yr_finalize_teardown_always(s, in) ==
  LET s1 == yr_re_finalize_thread(s)
      s2 == [Invoke(s1, "--init_count") EXCEPT !.init_count = @ - 1]
  IN  yr_finalize_teardown(s2, in)

yr_finalize(s, in) ==
  yr_finalize_teardown(yr_finalize_decrement(yr_re_finalize_thread(s)), in)

\* ---------------------------------------------------------------- tidx
\* Mutant: the value is kept in one slot shared by all threads.
yr_set_tidx_shared(s, in, t, tidx) ==
  IF s.tidx_key
  THEN Return([Invoke(s, "pthread_setspecific") EXCEPT
                 !.tls_tidx = [u \in Threads |-> ToPtr(tidx + 1)]], "void")
  ELSE LET u == Undefined(Invoke(s, "pthread_setspecific"), in)
       IN  IF u.done THEN u ELSE Return(u, "void")

\* pthread_setspecific(tidx_key, (void*) (size_t) (tidx + 1)) on thread t.
\* With a key that is not live the call is undefined; it stores nothing.
yr_set_tidx(s, in, t, tidx) ==
  IF s.tidx_key
  THEN Return([Invoke(s, "pthread_setspecific") EXCEPT !.tls_tidx[t] = ToPtr(tidx + 1)],
              "void")
  ELSE LET u == Undefined(Invoke(s, "pthread_setspecific"), in)
       IN  IF u.done THEN u ELSE Return(u, "void")

\* Mutant: the stored value is returned without the - 1.
yr_get_tidx_no_offset(s, in, t) ==
  IF s.tidx_key
  THEN Return(Invoke(s, "pthread_getspecific"), ToInt(s.tls_tidx[t]))
  ELSE LET u == Undefined(Invoke(s, "pthread_getspecific"), in)
       IN  IF u.done THEN u ELSE Return(u, ToInt(in.garbage))

\* return (int) (size_t) pthread_getspecific(tidx_key) - 1 on thread t.
\* With a key that is not live the call is undefined: in.garbage is the
\* pointer it yields.
yr_get_tidx(s, in, t) ==
  IF s.tidx_key
  THEN Return(Invoke(s, "pthread_getspecific"), ToInt(s.tls_tidx[t]) - 1)
  ELSE LET u == Undefined(Invoke(s, "pthread_getspecific"), in)
       IN  IF u.done THEN u ELSE Return(u, ToInt(in.garbage) - 1)

\* ---------------------------------------------------------------- actions
\* The sets of steps that may fail in one call.
FailSets(S) == {F \in SUBSET S : Cardinality(F) <= MaxFails}

\* The steps whose failure is an input (the others fail, or cannot, by the
\* state they run in).  The collaborators' results go through FAIL_ON_ERROR.
InitCollaborators == {"yr_heap_alloc", "yr_re_initialize", "yr_modules_initialize"}

InitUnchecked ==
  {"pthread_key_create(tidx_key)", "pthread_key_create(recovery_state_key)"}
  \cup (IF HAVE_LIBCRYPTO THEN {"OPENSSL_malloc", "pthread_mutex_init"} ELSE {})

InitFallible == InitCollaborators \cup InitUnchecked

FinalizeFallible == {"yr_re_finalize", "yr_modules_finalize", "yr_heap_free"}

\* The inputs of one call: which steps fail, with which code, and whether
\* the process dies when it executes something undefined.  Inputs the call
\* cannot read are fixed; an action takes an input only if the call reaches
\* every step the input makes fail.
Inputs(fallible, collaborators) ==
  {[fails |-> f, code |-> c, crash |-> FALSE, garbage |-> 0] :
     f \in FailSets(fallible),
     c \in ErrorCodes} \ 
  {[fails |-> f, code |-> ERROR_INSUFICIENT_MEMORY, crash |-> FALSE, garbage |-> 0] :
     f \in {g \in FailSets(fallible) : g \cap collaborators = {}}}

Dies(in) == [in EXCEPT !.crash = TRUE]

\* The steps of yr_finalize that release a shared resource.
TeardownSteps ==
  {"pthread_mutex_destroy", "OPENSSL_free", "pthread_key_delete(tidx_key)",
   "pthread_key_delete(recovery_state_key)", "yr_re_finalize", "yr_modules_finalize",
   "yr_heap_free"}

Steps(tr) == {tr[i] : i \in 1..Len(tr)}

NoInput == [fails |-> {}, code |-> ERROR_INTERNAL_FATAL_ERROR, crash |-> FALSE, garbage |-> 0]

RunOff == [phase |-> "off", n |-> 0, m |-> 0, teardowns |-> 0, bad |-> FALSE]

RunStart == [phase |-> "inits", n |-> 0, m |-> 0, teardowns |-> 0, bad |-> FALSE]

\* The globals after the steps a handler has run.
Globals(s) ==
  /\ init_count' = s.init_count
  /\ heap' = s.heap
  /\ re' = s.re
  /\ modules' = s.modules
  /\ tidx_key' = s.tidx_key
  /\ recovery_state_key' = s.recovery_state_key
  /\ locks' = s.locks
  /\ mutex_ok' = s.mutex_ok
  /\ id_callback' = s.id_callback
  /\ locking_callback' = s.locking_callback
  /\ tls_tidx' = s.tls_tidx
  /\ yr_cfgs' = s.yr_cfgs
  /\ case_tables' = s.case_tables
  /\ holders' = s.holders
  /\ re_storage' = s.re_storage
  /\ crashed' = s.crashed
  /\ UNCHANGED HAVE_LIBCRYPTO

\* The globals after a call run as one step.
Install(s) == Globals(s) /\ UNCHANGED race_vars

\* The record of a call: the operation, the calling thread where the
\* operation reads it, what it returned, the steps it ran, those that
\* failed, whether it executed something undefined, and the resources it
\* acquired while an instance acquired before was still held.
Called(s, op, t) ==
  [op |-> op, t |-> t, ret |-> s.ret, trace |-> s.trace, failed |-> s.failed,
   pre_count |-> s.pre_count, ub |-> s.ub, leaked |-> s.leaked,
   code |-> ERROR_SUCCESS]

\* The same, with the code the failing collaborator returned (an input).
CalledWith(s, op, t, in, collaborators) ==
  [Called(s, op, t) EXCEPT
     !.code = IF s.failed \cap collaborators # {} THEN in.code ELSE ERROR_SUCCESS]

\* The arguments recorded for a call that takes no name and no buffer.
NoArgs == [cfgname |-> YR_CONFIG_STACK_SIZE, buf |-> <<>>]

NoConfigurationCall == call_args' = NoArgs /\ buf_after' = <<>>

\* What the call has done to a value a caller had stored in yr_cfgs.
Overwrites(s) ==
  /\ written' = IF "yr_set_configuration" \in Steps(s.trace) THEN <<>> ELSE written
  /\ overwrote' = IF "yr_set_configuration" \in Steps(s.trace) THEN written ELSE <<>>

Init ==
  /\ HAVE_LIBCRYPTO \in BOOLEAN
  /\ init_count = 0
  /\ heap = FALSE
  /\ re = FALSE
  /\ modules = FALSE
  /\ tidx_key = FALSE
  /\ recovery_state_key = FALSE
  /\ locks = "NULL"
  /\ mutex_ok = FALSE
  /\ id_callback = FALSE
  /\ locking_callback = FALSE
  /\ tls_tidx = [t \in Threads |-> 0]
  /\ yr_cfgs = [c \in {YR_CONFIG_STACK_SIZE} |-> 0]
  /\ case_tables = FALSE
  /\ crashed = FALSE
  /\ last = [op |-> "none", t |-> "any", ret |-> ERROR_SUCCESS,
             trace |-> <<>>, failed |-> {}, pre_count |-> 0, ub |-> FALSE,
             leaked |-> {}, code |-> ERROR_SUCCESS]
  /\ clean = TRUE
  /\ run = RunStart
  /\ has_set = [t \in Threads |-> FALSE]
  /\ tidx_of = [t \in Threads |-> <<>>]
  /\ call_args = NoArgs
  /\ buf_after = <<>>
  /\ written = <<>>
  /\ overwrote = <<>>
  /\ holders = Unlocked
  /\ re_storage = [t \in Threads |-> FALSE]
  /\ pc = [t \in Threads |-> "idle"]
  /\ loaded = [t \in Threads |-> 0]
  /\ mine = [t \in Threads |-> 0]
  /\ serialized = TRUE
  /\ live_setups = 0

\* Some thread calls yr_initialize().
CallInitialize ==
  /\ ~crashed
  /\ init_count < MaxCount
  /\ \E in0 \in (IF init_count > 0 THEN {NoInput} ELSE Inputs(InitFallible, InitCollaborators)) :
     \E s0 \in {yr_initialize(Cur, in0)} :
     \E s \in {s0} \cup (IF s0.ub THEN {yr_initialize(Cur, Dies(in0))} ELSE {}) :
       LET from == IF run.phase = "fins" /\ run.m = run.n /\ ~run.bad THEN RunStart ELSE run
       IN  /\ in0.fails \subseteq s0.failed
           /\ Install(s)
           /\ last' = CalledWith(s, "yr_initialize", "any", in0, InitCollaborators)
           /\ clean' = (clean /\ s.failed = {})
           /\ run' = IF from.phase = "inits" /\ s.failed = {}
                     THEN [from EXCEPT !.n = @ + 1, !.bad = @ \/ s.ub]
                     ELSE RunOff
           /\ Overwrites(s)
           /\ NoConfigurationCall
           /\ UNCHANGED <<has_set, tidx_of>>

\* The threads a call has to be tried on: the calling thread matters to
\* yr_finalize only through the per-thread state the regex engine holds for
\* it, so one thread stands for all while no thread has any.
Callers ==
  IF \E u \in Threads : re_storage[u] THEN Threads ELSE {CHOOSE u \in Threads : TRUE}

\* Some thread calls yr_finalize().
CallFinalize ==
  /\ ~crashed
  /\ init_count > 0 - MaxUnder
  /\ \E in0 \in (IF init_count > 1 THEN {NoInput} ELSE Inputs(FinalizeFallible, FinalizeFallible)),
        t \in Callers :
     \E s0 \in {yr_finalize(On(t), in0)} :
     \E s \in {s0} \cup (IF s0.ub THEN {yr_finalize(On(t), Dies(in0))} ELSE {}) :
       LET tore == Steps(s.trace) \cap TeardownSteps # {}
       IN  /\ in0.fails \subseteq s0.failed
           /\ Install(s)
           /\ last' = CalledWith(s, "yr_finalize", "any", in0, FinalizeFallible)
           /\ clean' = (clean /\ s.failed = {} /\ init_count > 0)
           /\ run' = IF run.phase \in {"inits", "fins"} /\ run.m < run.n /\ s.failed = {}
                     THEN [run EXCEPT !.phase = "fins", !.m = @ + 1,
                                      !.teardowns = @ + (IF tore THEN 1 ELSE 0),
                                      !.bad = @ \/ s.ub]
                     ELSE RunOff
           /\ tidx_of' = IF "pthread_key_delete(tidx_key)" \in Steps(s.trace)
                         THEN [u \in Threads |-> <<>>] ELSE tidx_of
           /\ NoConfigurationCall
           /\ Overwrites(s)
           /\ UNCHANGED has_set

\* Thread t calls yr_set_tidx(tidx).
CallSetTidx(t) ==
  /\ ~crashed
  /\ \E tidx \in TidxInputs, crash \in (IF tidx_key THEN {FALSE} ELSE BOOLEAN) :
     \E s \in {yr_set_tidx(Cur, [NoInput EXCEPT !.crash = crash], t, tidx)} :
           /\ Install(s)
           /\ last' = Called(s, "yr_set_tidx", t)
           /\ has_set' = [has_set EXCEPT ![t] = TRUE]
           /\ tidx_of' = IF init_count > 0 /\ tidx_key
                         THEN [tidx_of EXCEPT ![t] = <<tidx>>] ELSE tidx_of
           /\ NoConfigurationCall
           /\ Overwrites(s)
           /\ UNCHANGED <<clean, run>>

\* Thread t calls yr_get_tidx().
CallGetTidx(t) ==
  /\ ~crashed
  /\ \E garbage \in (IF tidx_key THEN {0} ELSE {ToPtr(i + 1) : i \in TidxInputs}),
        crash \in (IF tidx_key THEN {FALSE} ELSE BOOLEAN) :
     \E s \in {yr_get_tidx(Cur, [NoInput EXCEPT !.crash = crash, !.garbage = garbage], t)} :
           /\ Install(s)
           /\ last' = Called(s, "yr_get_tidx", t)
           /\ NoConfigurationCall
           /\ Overwrites(s)
           /\ UNCHANGED <<clean, run, has_set, tidx_of>>

\* The pointers a caller passes: NULL, or the address of a uint32_t.
Buffers == {<<>>} \cup {<<v>> : v \in StackSizeInputs}

\* Some thread calls yr_set_configuration(cfgname, src).
CallSetConfiguration ==
  /\ ~crashed
  /\ \E cfgname \in ConfigNames, src \in Buffers :
     \E s0 \in {yr_set_configuration(Cur, cfgname, src)} :
     \E s \in {Return(s0, s0.result)} :
           /\ Install(s)
           /\ last' = Called(s, "yr_set_configuration", "any")
           /\ call_args' = [cfgname |-> cfgname, buf |-> src]
           /\ buf_after' = src
           /\ written' = IF s.failed = {} THEN src ELSE written
           /\ overwrote' = <<>>
           /\ UNCHANGED <<clean, run, has_set, tidx_of>>

\* Some thread calls yr_get_configuration(cfgname, dest).
CallGetConfiguration ==
  /\ ~crashed
  /\ \E cfgname \in ConfigNames, dest \in Buffers :
     \E s0 \in {yr_get_configuration(Cur, cfgname, dest)} :
     \E s \in {Return(s0, s0.result)} :
           /\ Install(s)
           /\ last' = Called(s, "yr_get_configuration", "any")
           /\ call_args' = [cfgname |-> cfgname, buf |-> dest]
           /\ buf_after' = s.dest
           /\ Overwrites(s)
           /\ UNCHANGED <<clean, run, has_set, tidx_of>>

Next ==
  \/ CallInitialize
  \/ CallFinalize
  \/ \E t \in Threads : CallSetTidx(t)
  \/ \E t \in Threads : CallGetTidx(t)

Spec == Init /\ [][Next]_vars

\* The crypto library calls the registered locking callback on thread t.
\* It asks for a lock the thread does not hold and releases one it holds; a
\* call that blocks has not returned.
CallLockingFunction(t) ==
  /\ ~crashed
  /\ HAVE_LIBCRYPTO /\ locking_callback
  /\ \E mode \in Modes, n \in Slots, crash \in BOOLEAN :
     \E s \in {locking_function(Cur, [NoInput EXCEPT !.crash = crash], t, mode, n)} :
           /\ (BitAnd(mode, CRYPTO_LOCK) # 0) <=> (t \notin holders[n])
           /\ ~s.blocked
           /\ crash => s.ub
           /\ Install(s)
           /\ last' = Called(s, "locking_function", t)
           /\ call_args' = [mode |-> mode, n |-> n]
           /\ buf_after' = <<>>
           /\ Overwrites(s)
           /\ UNCHANGED <<clean, run, has_set, tidx_of>>

\* Thread t calls yr_finalize_thread().
CallFinalizeThread(t) ==
  /\ ~crashed
  /\ \E s \in {yr_finalize_thread(On(t))} :
           /\ Install(s)
           /\ last' = Called(s, "yr_finalize_thread", t)
           /\ NoConfigurationCall
           /\ Overwrites(s)
           /\ UNCHANGED <<clean, run, has_set, tidx_of>>

\* The regex engine, scanning on thread t, allocates its per-thread state:
\* no API call of this file, recorded as "scan".
RegexAllocatesStorage(t) ==
  /\ ~crashed
  /\ re /\ ~re_storage[t]
  /\ re_storage' = [re_storage EXCEPT ![t] = TRUE]
  /\ last' = [last EXCEPT !.op = "scan", !.t = t]
  /\ UNCHANGED <<HAVE_LIBCRYPTO, init_count, heap, re, modules, tidx_key,
                 recovery_state_key, locks, mutex_ok, id_callback, locking_callback,
                 tls_tidx, yr_cfgs, case_tables, crashed, clean, run, has_set,
                 tidx_of, call_args, buf_after, written, overwrote, holders>>
  /\ UNCHANGED race_vars

\* ---------------------------------------------------------------- calls step by step
\* yr_initialize and yr_finalize take no lock, so a call on one thread can
\* be overtaken by a call on another between any two accesses to the
\* globals.  The steps below cut a call at its accesses to init_count; the
\* setup and the teardown are one step each, and every step of them
\* succeeds.  A thread calls yr_finalize only to pair a yr_initialize of its
\* own.
Calls == mine["T1"] + mine["T2"]

\* Thread t may begin a call.
MayEnter(t) ==
  /\ ~crashed
  /\ pc[t] = "idle"
  /\ serialized => \A u \in Threads : pc[u] = "idle"

\* Thread t goes from one position of its call to the next.
Goto(t, label) == pc' = [pc EXCEPT ![t] = label]

\* yr_initialize on thread t: if (init_count > 0)
InitializeEnter(t) ==
  /\ MayEnter(t)
  /\ Calls < MaxCount /\ init_count < MaxCount
  /\ mine' = [mine EXCEPT ![t] = @ + 1]
  /\ Goto(t, IF yr_initialize_nested(On(t)).done THEN "nested" ELSE "setup")
  /\ UNCHANGED <<HAVE_LIBCRYPTO, init_count, heap, re, modules, tidx_key,
                 recovery_state_key, locks, mutex_ok, id_callback, locking_callback,
                 tls_tidx, yr_cfgs, case_tables, crashed, holders, re_storage,
                 loaded, serialized, live_setups, call_vars>>

\* yr_initialize on thread t: the one-time setup, lines 99 to 134.
InitializeSetup(t) ==
  /\ ~crashed
  /\ pc[t] = "setup"
  /\ \E s \in {yr_initialize_setup(On(t), NoInput)} :
       /\ Globals(s)
       /\ live_setups' = live_setups + 1
       /\ Goto(t, "commit")
  /\ UNCHANGED <<loaded, mine, serialized, call_vars>>

\* init_count++ on thread t, first half: the value is read.
InitializeLoad(t) ==
  /\ ~crashed
  /\ pc[t] \in {"nested", "commit"}
  /\ loaded' = [loaded EXCEPT ![t] = init_count]
  /\ Goto(t, "store")
  /\ UNCHANGED <<HAVE_LIBCRYPTO, init_count, heap, re, modules, tidx_key,
                 recovery_state_key, locks, mutex_ok, id_callback, locking_callback,
                 tls_tidx, yr_cfgs, case_tables, crashed, holders, re_storage,
                 mine, serialized, live_setups, call_vars>>

\* init_count++ on thread t, second half: the value plus one is written;
\* return ERROR_SUCCESS.
InitializeStore(t) ==
  /\ ~crashed
  /\ pc[t] = "store"
  /\ init_count' = loaded[t] + 1
  /\ Goto(t, "idle")
  /\ UNCHANGED <<HAVE_LIBCRYPTO, heap, re, modules, tidx_key,
                 recovery_state_key, locks, mutex_ok, id_callback, locking_callback,
                 tls_tidx, yr_cfgs, case_tables, crashed, holders, re_storage,
                 loaded, mine, serialized, live_setups, call_vars>>

\* yr_finalize on thread t: yr_re_finalize_thread(), and --init_count
\* reads the value.
FinalizeEnter(t) ==
  /\ MayEnter(t)
  /\ mine[t] > 0
  /\ init_count > 0 - MaxUnder
  /\ mine' = [mine EXCEPT ![t] = @ - 1]
  /\ \E s \in {yr_re_finalize_thread(On(t))} : Globals(s)
  /\ loaded' = [loaded EXCEPT ![t] = init_count]
  /\ Goto(t, "decrement")
  /\ UNCHANGED <<serialized, live_setups, call_vars>>

\* yr_finalize on thread t: --init_count writes the value minus one;
\* if (... > 0) return ERROR_SUCCESS.
FinalizeStore(t) ==
  /\ ~crashed
  /\ pc[t] = "decrement"
  /\ init_count' = loaded[t] - 1
  /\ Goto(t, IF loaded[t] - 1 > 0 THEN "idle" ELSE "teardown")
  /\ UNCHANGED <<HAVE_LIBCRYPTO, heap, re, modules, tidx_key,
                 recovery_state_key, locks, mutex_ok, id_callback, locking_callback,
                 tls_tidx, yr_cfgs, case_tables, crashed, holders, re_storage,
                 loaded, mine, serialized, live_setups, call_vars>>

\* yr_finalize on thread t: the teardown, lines 173 to 191.
FinalizeTeardown(t) ==
  /\ ~crashed
  /\ pc[t] = "teardown"
  /\ \E s0 \in {yr_finalize_teardown(On(t), NoInput)} :
     \E s \in {s0} \cup (IF s0.ub THEN {yr_finalize_teardown(On(t), Dies(NoInput))} ELSE {}) :
       /\ Globals(s)
       /\ live_setups' = 0
       /\ Goto(t, "idle")
  /\ UNCHANGED <<loaded, mine, serialized, call_vars>>

\* The lifecycle and the configuration table.
NextConfig ==
  \/ CallInitialize
  \/ CallFinalize
  \/ CallSetConfiguration
  \/ CallGetConfiguration

SpecConfig == Init /\ [][NextConfig]_vars

\* The lifecycle and the crypto library's use of the lock bridge.
NextBridge ==
  \/ CallInitialize
  \/ CallFinalize
  \/ \E t \in Threads : CallLockingFunction(t)

SpecBridge == Init /\ [][NextBridge]_vars

\* The lifecycle and the thread-exit hook.
NextThread ==
  \/ CallInitialize
  \/ CallFinalize
  \/ \E t \in Threads : CallFinalizeThread(t)
  \/ \E t \in Threads : RegexAllocatesStorage(t)

SpecThread == Init /\ [][NextThread]_vars

\* The lifecycle calls step by step, by callers that do or do not keep them
\* mutually exclusive.
InitRace ==
  /\ HAVE_LIBCRYPTO \in BOOLEAN
  /\ init_count = 0
  /\ heap = FALSE
  /\ re = FALSE
  /\ modules = FALSE
  /\ tidx_key = FALSE
  /\ recovery_state_key = FALSE
  /\ locks = "NULL"
  /\ mutex_ok = FALSE
  /\ id_callback = FALSE
  /\ locking_callback = FALSE
  /\ tls_tidx = [t \in Threads |-> 0]
  /\ yr_cfgs = [c \in {YR_CONFIG_STACK_SIZE} |-> 0]
  /\ case_tables = FALSE
  /\ crashed = FALSE
  /\ last = [op |-> "none", t |-> "any", ret |-> ERROR_SUCCESS,
             trace |-> <<>>, failed |-> {}, pre_count |-> 0, ub |-> FALSE,
             leaked |-> {}, code |-> ERROR_SUCCESS]
  /\ clean = TRUE
  /\ run = RunStart
  /\ has_set = [t \in Threads |-> FALSE]
  /\ tidx_of = [t \in Threads |-> <<>>]
  /\ call_args = NoArgs
  /\ buf_after = <<>>
  /\ written = <<>>
  /\ overwrote = <<>>
  /\ holders = Unlocked
  /\ re_storage = [t \in Threads |-> FALSE]
  /\ pc = [t \in Threads |-> "idle"]
  /\ loaded = [t \in Threads |-> 0]
  /\ mine = [t \in Threads |-> 0]
  /\ serialized \in BOOLEAN
  /\ live_setups = 0

NextRace ==
  \/ \E t \in Threads : InitializeEnter(t)
  \/ \E t \in Threads : InitializeSetup(t)
  \/ \E t \in Threads : InitializeLoad(t)
  \/ \E t \in Threads : InitializeStore(t)
  \/ \E t \in Threads : FinalizeEnter(t)
  \/ \E t \in Threads : FinalizeStore(t)
  \/ \E t \in Threads : FinalizeTeardown(t)

SpecRace == InitRace /\ [][NextRace]_vars

\* ---------------------------------------------------------------- views
\* Whether each shared resource is allocated, and the resources of this build.
Alloc ==
  [heap |-> heap, tidx_key |-> tidx_key, recovery_state_key |-> recovery_state_key,
   locks |-> (locks = "valid"), re |-> re, modules |-> modules]

Shared == IF HAVE_LIBCRYPTO THEN Resources ELSE Resources \ {"locks"}

\* What yr_get_tidx() would return on thread t now.
GetTidx(t) == yr_get_tidx(Cur, NoInput, t).ret

IsPrefix(a, b) == Len(a) <= Len(b) /\ a = SubSeq(b, 1, Len(a))

\* The order of the setup steps and of the teardown steps the claims state.
SetupOrder ==
  <<"case_tables", "yr_heap_alloc", "pthread_key_create(tidx_key)",
    "pthread_key_create(recovery_state_key)">>
  \o (IF HAVE_LIBCRYPTO
      THEN <<"OPENSSL_malloc", "pthread_mutex_init", "CRYPTO_set_id_callback",
             "CRYPTO_set_locking_callback">>
      ELSE <<>>)
  \o <<"yr_re_initialize", "yr_modules_initialize", "yr_set_configuration">>

TeardownOrder ==
  (IF HAVE_LIBCRYPTO THEN <<"pthread_mutex_destroy", "OPENSSL_free">> ELSE <<>>)
  \o <<"pthread_key_delete(tidx_key)", "pthread_key_delete(recovery_state_key)",
       "yr_re_finalize", "yr_modules_finalize", "yr_heap_free">>

\* A step that is a yr_initialize (yr_finalize) call.  Only that action
\* writes such a record, and the record holds the count before the call, so
\* two calls in a row leave different records unless the second changes
\* nothing at all.
InitializeStep == last'.op = "yr_initialize" /\ last' # last

FinalizeStep == last'.op = "yr_finalize" /\ last' # last

\* ---------------------------------------------------------------- claims
\* C1: when yr_initialize is called N >= 1 times and then yr_finalize N
\* times, every step succeeding, the shared teardown runs in none of the
\* first N-1 yr_finalize calls and exactly once, in full, in the N-th; no
\* call of the sequence releases or uses a resource that is not allocated,
\* and afterwards no shared resource is allocated.
C1_TeardownExactlyOnce ==
  /\ run.phase = "inits" => run.teardowns = 0 /\ ~run.bad
  /\ run.phase = "fins" =>
       /\ ~run.bad
       /\ run.m < run.n => run.teardowns = 0
       /\ run.m = run.n =>
            /\ run.teardowns = 1
            /\ \A r \in Shared : ~Alloc[r]
            /\ last.op = "yr_finalize" =>
                 /\ \A i \in 1..Len(TeardownOrder) :
                      Cardinality({j \in 1..Len(last.trace) :
                                     last.trace[j] = TeardownOrder[i]}) = 1
                 /\ last.ret = ERROR_SUCCESS

\* C1 witness: MaxCount yr_initialize calls, then the MaxCount-th yr_finalize.
C1_Witness ==
  /\ run.phase = "fins" /\ run.n = MaxCount /\ run.m = run.n
  /\ last.op = "yr_finalize" /\ run.teardowns = 1

\* C2: a yr_finalize call whose post-decrement count is > 0 returns
\* ERROR_SUCCESS, lowers the count by exactly one and changes nothing else:
\* no shared resource is released; after initialize, initialize, finalize
\* the count is 1 and every shared resource is allocated.
C2_NestedFinalizeReleasesNothing ==
  [][ (FinalizeStep /\ init_count' > 0) =>
        /\ last'.ret = ERROR_SUCCESS
        /\ init_count' = init_count - 1
        /\ Steps(last'.trace) \cap TeardownSteps = {}
        /\ UNCHANGED <<heap, re, modules, tidx_key, recovery_state_key, locks,
                       mutex_ok, id_callback, locking_callback, tls_tidx, yr_cfgs,
                       case_tables, crashed>>
        /\ (run'.phase = "fins" /\ run'.n = 2 /\ run'.m = 1) =>
              (init_count' = 1 /\ \A r \in Shared : Alloc'[r]) ]_vars

\* C2 witness: after initialize, initialize, finalize.
C2_Witness ==
  /\ last.op = "yr_finalize" /\ init_count = 1
  /\ run.phase = "fins" /\ run.n = 2 /\ run.m = 1
  /\ \A r \in Shared : Alloc[r]

\* C3: as long as no step has failed and yr_finalize was never called with
\* a count <= 0, init_count is >= 0 and each shared resource is allocated
\* if and only if init_count > 0.
C3_ResourcesIffCounted ==
  clean => /\ init_count >= 0
           /\ \A r \in Shared : Alloc[r] <=> init_count > 0

\* C3 witness: the count has gone up and come back to 0.
C3_Witness ==
  clean /\ last.op = "yr_finalize" /\ init_count = 0 /\ last.pre_count = 1

\* C4: a yr_initialize call made with a count > 0 runs no setup step and
\* only increments the count; one made with the count at 0 runs the setup
\* steps in the fixed order (case tables, heap, the two TLS keys, the
\* crypto bridge if compiled in, regex engine, module registry, default
\* stack size), stopping only where a step makes it return.
C4_SetupOnlyFromZeroInOrder ==
  [][ InitializeStep =>
        /\ init_count > 0 =>
             /\ last'.trace = <<"init_count++">>
             /\ init_count' = init_count + 1
             /\ last'.ret = ERROR_SUCCESS
             /\ UNCHANGED <<heap, re, modules, tidx_key, recovery_state_key, locks,
                            mutex_ok, id_callback, locking_callback, tls_tidx,
                            yr_cfgs, case_tables, crashed>>
        /\ init_count = 0 =>
             /\ IsPrefix(last'.trace, SetupOrder \o <<"init_count++">>)
             /\ last'.ret = ERROR_SUCCESS =>
                  /\ last'.trace = SetupOrder \o <<"init_count++">>
                  /\ yr_cfgs'[YR_CONFIG_STACK_SIZE] = DEFAULT_STACK_SIZE
                  /\ init_count' = 1 ]_vars

\* C4 witness: a first yr_initialize that ran the whole setup, with the
\* crypto bridge compiled in.
C4_Witness ==
  /\ HAVE_LIBCRYPTO /\ last.op = "yr_initialize" /\ last.pre_count = 0
  /\ last.ret = ERROR_SUCCESS /\ Len(last.trace) = Len(SetupOrder) + 1

\* C5: every yr_finalize call, whatever the count, first calls
\* yr_re_finalize_thread and then decrements the count; when the count
\* has reached 0 (or less) the teardown steps follow in the order crypto
\* mutex array, TLS keys, regex engine, module registry, heap bookkeeping.
C5_HookThenDecrementThenTeardown ==
  last.op = "yr_finalize" =>
    /\ IsPrefix(<<"yr_re_finalize_thread", "--init_count">>, last.trace)
    /\ init_count = last.pre_count - 1
    /\ IsPrefix(last.trace, <<"yr_re_finalize_thread", "--init_count">> \o TeardownOrder)
    /\ (init_count <= 0 /\ last.ret = ERROR_SUCCESS) =>
         last.trace = <<"yr_re_finalize_thread", "--init_count">> \o TeardownOrder

\* C5 witness: a yr_finalize that tore everything down, crypto bridge included.
C5_Witness ==
  /\ HAVE_LIBCRYPTO /\ last.op = "yr_finalize" /\ last.ret = ERROR_SUCCESS
  /\ init_count = 0 /\ Len(last.trace) = Len(TeardownOrder) + 2

C7_EveryFailureIsReported ==
  (last.op \in {"yr_initialize", "yr_finalize"} /\ last.failed # {})
  => /\ last.ret \in ErrorCodes
     /\ last.trace[Len(last.trace)] \in last.failed

\* C8: when a collaborator fails in yr_initialize or yr_finalize, the call
\* returns the collaborator's code, the failing step is the last one the
\* call runs, and every step that completed before it keeps its effect:
\* what it acquired stays allocated, what it released stays released, and
\* the resources of the steps not reached are as before the call.  (An
\* OPENSSL_malloc that failed earlier in the call has left locks NULL.)
C8_FailureShortCircuitsWithoutRollback ==
  [][ ((InitializeStep \/ FinalizeStep)
         /\ last'.failed \cap (InitCollaborators \cup FinalizeFallible) # {}) =>
        LET tr == last'.trace
            ran == Steps(tr) \ last'.failed
            acquired ==
              [heap |-> "yr_heap_alloc", tidx_key |-> "pthread_key_create(tidx_key)",
               recovery_state_key |-> "pthread_key_create(recovery_state_key)",
               locks |-> "OPENSSL_malloc", re |-> "yr_re_initialize",
               modules |-> "yr_modules_initialize"]
            released ==
              [heap |-> "yr_heap_free", tidx_key |-> "pthread_key_delete(tidx_key)",
               recovery_state_key |-> "pthread_key_delete(recovery_state_key)",
               locks |-> "OPENSSL_free", re |-> "yr_re_finalize",
               modules |-> "yr_modules_finalize"]
        IN  /\ last'.ret = last'.code
            /\ last'.code \in ErrorCodes
            /\ tr[Len(tr)] \in last'.failed
            /\ \A r \in Resources :
                 Alloc'[r] = IF acquired[r] \in ran THEN TRUE
                             ELSE IF released[r] \in ran THEN FALSE
                             ELSE IF r = "locks" /\ "OPENSSL_malloc" \in last'.failed
                                  THEN FALSE
                             ELSE Alloc[r] ]_vars

\* C8 witness: yr_re_finalize has failed after the keys were deleted; the
\* module registry and the heap are still held.
C8_Witness ==
  /\ last.op = "yr_finalize" /\ "yr_re_finalize" \in last.failed
  /\ last.ret = last.code /\ last.code \in ErrorCodes
  /\ ~tidx_key /\ modules /\ heap

\* C9: while the library is initialized (count > 0, the tidx key live),
\* yr_get_tidx returns -1 on every thread that has never called
\* yr_set_tidx, whatever the other threads have stored; and a yr_set_tidx
\* call leaves what yr_get_tidx returns on every other thread as it was.
C9_UnsetThreadReadsMinusOne ==
  [][ /\ \A t \in Threads :
           (init_count' > 0 /\ tidx_key' /\ ~has_set'[t]) => GetTidx(t)' = 0 - 1
      /\ (last'.op = "yr_get_tidx" /\ init_count' > 0 /\ tidx_key' /\ ~has_set'[last'.t])
           => last'.ret = 0 - 1
      /\ \A t \in Threads :
           (tidx_key /\ last'.op = "yr_set_tidx" /\ last'.t = t)
             => \A u \in Threads \ {t} :
                  tls_tidx'[u] = tls_tidx[u] /\ GetTidx(u)' = GetTidx(u) ]_vars

\* C9 witness: yr_get_tidx has returned -1 on a thread that never set its
\* tidx, while another thread holds a tidx >= 0.
C9_Witness ==
  /\ last.op = "yr_get_tidx" /\ init_count > 0 /\ tidx_key
  /\ ~has_set[last.t] /\ last.ret = 0 - 1
  /\ \E u \in Threads \ {last.t} : has_set[u] /\ GetTidx(u) >= 0

\* C10: after yr_set_tidx(i) with i >= 0 on a thread, made while the
\* library is initialized, yr_get_tidx on that thread returns i until the
\* thread sets its tidx again or the tidx key is deleted; so 0 is told
\* apart from the unset value -1.
C10_GetReturnsWhatWasSet ==
  /\ \A t \in Threads :
       (tidx_key /\ tidx_of[t] # <<>> /\ tidx_of[t][1] >= 0)
         => /\ GetTidx(t) = tidx_of[t][1]
            /\ GetTidx(t) # 0 - 1
  /\ (last.op = "yr_get_tidx" /\ tidx_key
        /\ tidx_of[last.t] # <<>> /\ tidx_of[last.t][1] >= 0)
       => last.ret = tidx_of[last.t][1]

\* C10 witness: yr_get_tidx has returned 0 on a thread that had set 0.
C10_Witness ==
  /\ last.op = "yr_get_tidx" /\ tidx_key /\ init_count > 0
  /\ tidx_of[last.t] = <<0>> /\ last.ret = 0

\* A step that is a configuration call: only those actions write such a
\* record, and every action writes the record.
SetConfigurationStep == last'.op = "yr_set_configuration"

GetConfigurationStep == last'.op = "yr_get_configuration"

\* C11: yr_set_configuration(YR_CONFIG_STACK_SIZE, &v) returns ERROR_SUCCESS
\* and stores v; a yr_get_configuration(YR_CONFIG_STACK_SIZE, &out) returns
\* ERROR_SUCCESS with out equal to the table's value, which is the v of the
\* last successful set as long as nothing else has written the table since.
C11_GetReturnsWhatWasStored ==
  /\ (last.op = "yr_set_configuration" /\ call_args.cfgname = YR_CONFIG_STACK_SIZE
        /\ call_args.buf # <<>>)
       => /\ last.ret = ERROR_SUCCESS
          /\ yr_cfgs[YR_CONFIG_STACK_SIZE] = call_args.buf[1]
          /\ written = call_args.buf
  /\ (last.op = "yr_get_configuration" /\ call_args.cfgname = YR_CONFIG_STACK_SIZE
        /\ call_args.buf # <<>>)
       => /\ last.ret = ERROR_SUCCESS
          /\ buf_after = <<yr_cfgs[YR_CONFIG_STACK_SIZE]>>
          /\ written # <<>> => buf_after = written

\* C11 witness: 128 was set, and a get into a buffer holding something
\* else has returned 128.
C11_Witness ==
  /\ last.op = "yr_get_configuration" /\ last.ret = ERROR_SUCCESS
  /\ written = <<128>> /\ buf_after = <<128>> /\ call_args.buf = <<256>>

\* C12: a configuration call with a NULL buffer, or with a name other than
\* YR_CONFIG_STACK_SIZE, returns ERROR_INTERNAL_FATAL_ERROR and leaves the
\* configuration table and the caller's buffer as they were.
C12_BadArgumentsAreRejected ==
  [][ ((SetConfigurationStep \/ GetConfigurationStep)
         /\ (call_args'.buf = <<>> \/ call_args'.cfgname # YR_CONFIG_STACK_SIZE)) =>
        /\ last'.ret = ERROR_INTERNAL_FATAL_ERROR
        /\ yr_cfgs' = yr_cfgs
        /\ buf_after' = call_args'.buf
        /\ written' = written ]_vars

\* C12 witness: a get with an unwired name and a buffer was refused while
\* the table held another value than the buffer.
C12_Witness ==
  /\ last.op = "yr_get_configuration" /\ call_args.cfgname = YR_CONFIG_MAX
  /\ call_args.buf = <<128>> /\ last.ret = ERROR_INTERNAL_FATAL_ERROR
  /\ yr_cfgs[YR_CONFIG_STACK_SIZE] = DEFAULT_STACK_SIZE /\ buf_after = <<128>>

\* C18: a yr_initialize call made with a count > 0 leaves the configuration
\* table and the case tables as they were; a yr_initialize call that takes
\* the count from 0 to 1 leaves the stack size at DEFAULT_STACK_SIZE,
\* whatever a caller had stored before; a yr_finalize call leaves the
\* configuration table as it was.
C18_ConfigurationAcrossLifecycle ==
  [][ /\ (InitializeStep /\ init_count > 0) =>
           /\ yr_cfgs' = yr_cfgs
           /\ case_tables' = case_tables
           /\ written' = written
      /\ (InitializeStep /\ init_count = 0 /\ init_count' = 1) =>
           /\ yr_cfgs'[YR_CONFIG_STACK_SIZE] = DEFAULT_STACK_SIZE
           /\ overwrote' = written
      /\ FinalizeStep => yr_cfgs' = yr_cfgs ]_vars

\* C18 witness: 128 was stored while the count was 1, and is still there
\* after the yr_initialize call that took the count to 2.
C18_Witness ==
  /\ last.op = "yr_initialize" /\ last.pre_count = 1 /\ init_count = 2
  /\ written = <<128>> /\ yr_cfgs[YR_CONFIG_STACK_SIZE] = 128

\* The other case of C18: a first yr_initialize has replaced a stored 128.
C18_OverwriteReached ==
  /\ last.op = "yr_initialize" /\ last.pre_count = 0 /\ init_count = 1
  /\ overwrote = <<128>> /\ yr_cfgs[YR_CONFIG_STACK_SIZE] = DEFAULT_STACK_SIZE

\* C13 as claimed: with the crypto bridge compiled in, and no step having
\* failed, the thread-id and locking callbacks are registered only while
\* the count is > 0 and the mutex array locks points to is allocated.
C13_CallbacksOnlyWhileActive ==
  (HAVE_LIBCRYPTO /\ clean /\ (locking_callback \/ id_callback))
  => (init_count > 0 /\ locks = "valid" /\ mutex_ok)

\* The ASCII letters, as byte values.
IsUpper(b) == b >= 65 /\ b <= 90

IsLower(b) == b >= 97 /\ b <= 122

\* C14: after a successful yr_initialize, for every byte value b:
\* altercase[altercase[b]] = b; altercase[b] = b unless b is an ASCII
\* letter; altercase maps a-z to the corresponding A-Z letter and A-Z to
\* a-z; lowercase maps A-Z to a-z and every other byte to itself.
C14_CaseTables ==
  (last.op = "yr_initialize" /\ last.ret = ERROR_SUCCESS) =>
    /\ case_tables
    /\ \A b \in 0..255 :
         /\ altercase[altercase[b]] = b
         /\ (~IsUpper(b) /\ ~IsLower(b)) => altercase[b] = b
         /\ IsLower(b) => altercase[b] = b - 32
         /\ IsUpper(b) => altercase[b] = b + 32
         /\ lowercase[b] = IF IsUpper(b) THEN b + 32 ELSE b

\* C14 witness: a yr_initialize has succeeded, and 'a' toggles to 'A', 'A'
\* lowers to 'a', and byte 200 stays.
C14_Witness ==
  /\ last.op = "yr_initialize" /\ last.ret = ERROR_SUCCESS /\ last.pre_count = 0
  /\ altercase[97] = 65 /\ lowercase[65] = 97 /\ altercase[200] = 200

\* The bridge is active: the callback is registered, the count is > 0 and
\* locks points to an array of initialized mutexes.
BridgeActive ==
  HAVE_LIBCRYPTO /\ locking_callback /\ init_count > 0 /\ locks = "valid" /\ mutex_ok

\* Whether a request of thread t for slot n would block now.
WouldBlock(t, n) ==
  locking_function(Cur, NoInput, t, CRYPTO_LOCK + CRYPTO_WRITE, n).blocked

\* C15: while the bridge is active, a locking_function(mode, n) call on
\* thread t takes mutex n for t when mode has the CRYPTO_LOCK bit, which it
\* can only do when no thread holds it, and gives it up otherwise; it
\* leaves every other slot as it was; no slot is ever held by two threads;
\* a request for a held slot blocks, and a request for a free slot does
\* not, whatever other slots are held.
C15_MutualExclusionPerSlot ==
  [][ /\ BridgeActive =>
           /\ \A n \in Slots : Cardinality(holders[n]) <= 1
           /\ \A t \in Threads, n \in Slots :
                WouldBlock(t, n) <=> (holders[n] # {} /\ t \notin holders[n])
      /\ (last'.op = "locking_function" /\ BridgeActive) =>
           /\ ~last'.ub
           /\ IF BitAnd(call_args'.mode, CRYPTO_LOCK) # 0
              THEN /\ holders[call_args'.n] = {}
                   /\ holders'[call_args'.n] = {last'.t}
                   /\ last'.trace = <<"pthread_mutex_lock">>
              ELSE /\ holders[call_args'.n] = {last'.t}
                   /\ holders'[call_args'.n] = {}
                   /\ last'.trace = <<"pthread_mutex_unlock">>
           /\ \A m \in Slots \ {call_args'.n} : holders'[m] = holders[m] ]_vars

\* C15 witness: one thread has just taken slot 1 while the other holds
\* slot 0.
C15_Witness ==
  /\ BridgeActive /\ last.op = "locking_function"
  /\ call_args.n = 1 /\ BitAnd(call_args.mode, CRYPTO_LOCK) # 0
  /\ holders[1] = {last.t} /\ \E u \in Threads \ {last.t} : holders[0] = {u}

\* C16: a yr_finalize_thread call, on any thread and in any lifecycle
\* state, runs yr_re_finalize_thread and nothing else: the count, the TLS
\* keys and their values, the case tables, the configuration table and the
\* shared resources stay as they were, and the only state that changes is
\* the regex engine's per-thread state of the calling thread; on a thread
\* that has none (as after an earlier call) the call changes nothing.
C16_ThreadExitHookFrame ==
  [][ last'.op = "yr_finalize_thread" =>
        /\ last'.trace = <<"yr_re_finalize_thread">>
        /\ ~last'.ub /\ last'.failed = {}
        /\ UNCHANGED <<init_count, tidx_key, recovery_state_key, tls_tidx,
                       case_tables, yr_cfgs, heap, re, modules, locks, mutex_ok,
                       id_callback, locking_callback, holders, crashed>>
        /\ re_storage' = [re_storage EXCEPT ![last'.t] = FALSE]
        /\ ~re_storage[last'.t] => re_storage' = re_storage ]_vars

\* C16 witness: the hook has been called with the count at 0 after a
\* teardown, on a thread that has no per-thread state left, while the other
\* thread still has some.
C16_Witness ==
  /\ last.op = "yr_finalize_thread" /\ init_count = 0 /\ ~re /\ case_tables
  /\ ~re_storage[last.t] /\ \E u \in Threads \ {last.t} : re_storage[u]

\* No thread is inside a lifecycle call.
Quiet == \A t \in Threads : pc[t] = "idle"

\* C17: when the callers keep yr_initialize and yr_finalize mutually
\* exclusive (and every step succeeds), the one-time setup never runs twice
\* without a teardown in between, and between calls the count is the
\* number of unpaired yr_initialize calls and the shared resources are
\* allocated exactly while it is > 0.  Without that exclusion nothing in
\* the code holds a second thread back: the state of the witness is
\* reachable.
C17_SerializedCallsSetUpOnce ==
  serialized =>
    /\ live_setups <= 1
    /\ ~crashed
    /\ Quiet => /\ init_count = Calls
                /\ live_setups = 1 <=> init_count > 0
                /\ \A r \in Shared : Alloc[r] <=> init_count > 0

\* C17 witness: two yr_initialize calls that were not kept apart have both
\* read the count as 0 and both run the one-time setup, both have returned,
\* and the count (1, one increment lost) is not the number of setups run.
C17_Witness ==
  /\ ~serialized /\ Quiet /\ ~crashed
  /\ mine = [t \in Threads |-> 1]
  /\ live_setups = 2 /\ init_count # live_setups

\* The other outcome of the same race: both increments land, the count is 2
\* for two setups run on top of each other.
C17_BothIncrementsLand ==
  /\ ~serialized /\ Quiet /\ ~crashed
  /\ mine = [t \in Threads |-> 1]
  /\ live_setups = 2 /\ init_count = 2

\* The resource each teardown step releases.
Releases ==
  [r \in Resources |->
     CASE r = "heap" -> "yr_heap_free"
       [] r = "tidx_key" -> "pthread_key_delete(tidx_key)"
       [] r = "recovery_state_key" -> "pthread_key_delete(recovery_state_key)"
       [] r = "locks" -> "pthread_mutex_destroy"
       [] r = "re" -> "yr_re_finalize"
       [] r = "modules" -> "yr_modules_finalize"]

\* C19: a yr_finalize call made with a count <= 0 is not refused: it takes
\* the count below zero and goes through the teardown steps in order, to
\* the end unless a step makes it return or the process dies, and a step
\* that reaches a resource which is not allocated executes something
\* undefined; a yr_initialize call made with a count < 0 runs the one-time
\* setup, and when it succeeds the count is one higher and still <= 0.
C19_FinalizeBelowZero ==
  [][ /\ (FinalizeStep /\ init_count <= 0) =>
           /\ init_count' = init_count - 1
           /\ init_count' < 0
           /\ IsPrefix(last'.trace, <<"yr_re_finalize_thread", "--init_count">> \o TeardownOrder)
           /\ Len(last'.trace) > 2
           /\ last'.ret = ERROR_SUCCESS =>
                last'.trace = <<"yr_re_finalize_thread", "--init_count">> \o TeardownOrder
           /\ \A r \in Shared :
                (~Alloc[r] /\ Releases[r] \in Steps(last'.trace)
                   /\ Releases[r] \notin last'.failed \ {"pthread_key_delete(" \o r \o ")"})
                  => last'.ub
      /\ (InitializeStep /\ init_count < 0) =>
           /\ IsPrefix(last'.trace, SetupOrder \o <<"init_count++">>)
           /\ Len(last'.trace) > 1
           /\ last'.ret = ERROR_SUCCESS =>
                /\ last'.trace = SetupOrder \o <<"init_count++">>
                /\ init_count' = init_count + 1
                /\ init_count' <= 0 ]_vars

\* C19 witness: a yr_finalize too many has run the whole teardown on
\* resources that were not allocated and left the count at -1, and the
\* yr_initialize after it has run the whole setup and returned with the
\* count at 0.
C19_Witness ==
  /\ last.op = "yr_initialize" /\ last.pre_count = 0 - 1 /\ last.ret = ERROR_SUCCESS
  /\ init_count = 0 /\ heap /\ re /\ modules /\ tidx_key
  /\ Len(last.trace) = Len(SetupOrder) + 1

\* The first half of C19's case: the yr_finalize too many, run to its end.
C19_TeardownBelowZeroReached ==
  /\ last.op = "yr_finalize" /\ last.pre_count = 0 /\ init_count = 0 - 1
  /\ last.ub /\ last.ret = ERROR_SUCCESS
  /\ Len(last.trace) = Len(TeardownOrder) + 2

\* C20 as claimed: no yr_initialize call allocates the heap bookkeeping or
\* a TLS key while the instance allocated before is still held.
C20_NoDoubleAllocation ==
  last.op = "yr_initialize" =>
    last.leaked \cap {"heap", "tidx_key", "recovery_state_key"} = {}

====
